---- MODULE Spec2Model ----
(***************************************************************************)
(* MediGuide: the FastAPI chat service (main.py, database.py, auth.py) and *)
(* the offline indexing script (memory_llm.py).                            *)
(*                                                                         *)
(* Conventions.                                                            *)
(*  - A Python str whose characters matter (prompt, conversation id,       *)
(*    document text) is the sequence of its code points, ord(c) for each   *)
(*    character c: "hi" is <<104, 105>>.                                   *)
(*  - An Optional value is a sequence of length at most one: None is <<>>  *)
(*    and a present value x is <<x>>.                                      *)
(*  - Endpoints declared with "def" run on FastAPI's thread pool, so each  *)
(*    worker thread is a process whose handler is cut at the database and  *)
(*    model calls, and between a dependency and its endpoint.              *)
(***************************************************************************)
EXTENDS Integers, Sequences, FiniteSets, TLC

\* ------------------------------------------------------------------ bounds
MaxChats == 2
MaxAccountRequests == 2
MaxDocLen == 4

\* ------------------------------------------------------- program constants
chunk_size == 500
chunk_overlap == 50
TopK == 3
TitleLen == 50

\* ------------------------------------------------------------ input sets
Workers == {1, 2}
Usernames == {"alice", "bob", "carol"}
Passwords == {"pw1", "pw2"}
ApiKeys == {"gsk_A", "gsk_B", "gsk_X"}
\* keys for which the ChatOpenAI(...) constructor raises
RejectedKeys == {"gsk_X"}
\* the characters "1" to "9"
Digits == <<49, 50, 51, 52, 53, 54, 55, 56, 57>>

None == <<>>
Some(x) == <<x>>

\* os.getenv gives None when the variable is unset and "" when it is set empty
EnvValues == {None, Some("")} \cup {Some(k) : k \in ApiKeys}

\* "", " " and "hi"
Prompts == {<<>>, <<32>>, <<104, 105>>}

VARIABLES
    env,           \* PRIMARY_GROQ_API_KEY / FALLBACK_GROQ_API_KEY
    phase,         \* "boot" before the startup event, "serving" after it
    qa_chain,      \* main.py global: None or the assembled chain
    log,           \* lines printed by load_llm / load_resources
    users,         \* users_collection, in insertion order
    conversations, \* conversations_collection, _id = position
    tokens,        \* access tokens handed out by /token
    th,            \* per worker thread: its handler's position and locals,
                   \* and the last response it sent
    nchat,         \* /chat requests accepted so far
    nacct,         \* /register and /token requests accepted so far
    doc,           \* indexing script: text of the page being split
    text_chunks    \* indexing script: result of create_chunks

vars == <<env, phase, qa_chain, log, users, conversations, tokens, th, nchat,
          nacct, doc, text_chunks>>

idxVars == <<doc, text_chunks>>

\* ------------------------------------------------------------- load_llm
KeyList == <<env.PRIMARY_GROQ_API_KEY, env.FALLBACK_GROQ_API_KEY>>

\* "if key:" -- None and "" are falsy
Truthy(key) == key # None /\ key # Some("")

\* load_llm that gives up at the first key whose constructor raises
RECURSIVE LoadFromNoFallback(_, _)
LoadFromNoFallback(keys, i) ==
    IF i > Len(keys) THEN [raised |-> TRUE, printed |-> <<>>]
    ELSE IF ~Truthy(keys[i]) THEN LoadFromNoFallback(keys, i + 1)
    ELSE IF keys[i][1] \notin RejectedKeys
         THEN [raised |-> FALSE, llm |-> keys[i][1], printed |-> <<>>]
         ELSE [raised |-> TRUE,
               printed |-> <<[msg |-> "GROQ API key failed", key |-> i]>>]

\* Result of the for loop started at position i: the client built from the
\* first key that is truthy and whose constructor returns, else the ValueError.
RECURSIVE LoadFrom(_, _)
LoadFrom(keys, i) ==
    IF i > Len(keys) THEN [raised |-> TRUE, printed |-> <<>>]
    ELSE IF ~Truthy(keys[i]) THEN LoadFrom(keys, i + 1)
    ELSE IF keys[i][1] \notin RejectedKeys
         THEN [raised |-> FALSE, llm |-> keys[i][1], printed |-> <<>>]
         ELSE LET rest == LoadFrom(keys, i + 1)
              IN [rest EXCEPT !.printed =
                     <<[msg |-> "GROQ API key failed", key |-> i]>> \o @]

load_llm == LoadFrom(KeyList, 1)

\* ------------------------------------------------------- the vector index
\* The index written by the indexing script: chunk text with its source.
\* The chunks are "hi", "ho", " " and "ok".
Index == <<[page_content |-> <<104, 105>>, source |-> "a.pdf"],
           [page_content |-> <<104, 111>>, source |-> "a.pdf"],
           [page_content |-> <<32>>, source |-> "b.pdf"],
           [page_content |-> <<111, 107>>, source |-> "c.pdf"]>>

Min(a, b) == IF a < b THEN a ELSE b

\* Stand-in for the distance between the embeddings of two texts: the number
\* of positions of the chunk whose character does not occur in the query.
Distance(query, text) ==
    Cardinality({i \in 1..Len(text) : \A j \in 1..Len(query) : query[j] # text[i]})

\* db.as_retriever(search_kwargs={'k': 3}): the positions of the k nearest
\* entries, nearest first, ties in insertion order
RECURSIVE Nearest(_, _, _)
Nearest(query, k, taken) ==
    LET left == (1..Len(Index)) \ taken IN
    IF k = 0 \/ left = {} THEN <<>>
    ELSE LET best == CHOOSE i \in left : \A j \in left :
                        \/ Distance(query, Index[i].page_content)
                             < Distance(query, Index[j].page_content)
                        \/ /\ Distance(query, Index[i].page_content)
                                = Distance(query, Index[j].page_content)
                           /\ i <= j
         IN <<best>> \o Nearest(query, k - 1, taken \cup {best})

Retrieved == [query \in Prompts |->
                 [i \in 1..Min(TopK, Len(Index)) |-> Index[Nearest(query, TopK, {})[i]]]]

Retrieve(query) == Retrieved[query]

\* ---------------------------------------------------------- load_resources
Startup ==
    /\ phase = "boot"
    /\ \E resources_ok \in BOOLEAN :
         LET r == load_llm IN
         IF r.raised
         THEN /\ qa_chain' = None
              /\ log' = log \o r.printed \o
                        <<[msg |-> "Failed to load RAG chain: Both GROQ API keys failed or are missing. Cannot load LLM.",
                           key |-> 0]>>
         ELSE IF ~resources_ok
         THEN /\ qa_chain' = None
              /\ log' = log \o r.printed \o
                        <<[msg |-> "Failed to load RAG chain: embedder or index", key |-> 0]>>
         ELSE /\ qa_chain' = Some([llm |-> r.llm,
                                   embed_model |-> "all-MiniLM-L6-v2",
                                   db |-> Index,
                                   k |-> TopK,
                                   return_source_documents |-> TRUE])
              /\ log' = log \o r.printed \o
                        <<[msg |-> "RAG chain loaded", key |-> 0]>>
    /\ phase' = "serving"
    /\ UNCHANGED <<env, users, conversations, tokens, th, nchat, nacct>>
    /\ UNCHANGED idxVars

\* ------------------------------------------------------------- database.py
\* find_one({"username": username}): the first matching document, or None
get_user(username) ==
    LET hits == {i \in 1..Len(users) : users[i].username = username}
    IN IF hits = {} THEN None
       ELSE Some(users[CHOOSE i \in hits : \A j \in hits : i <= j])

create_user(username, hashed_password) ==
    Append(users, [username |-> username, hashed_password |-> hashed_password])

\* str(ObjectId) and ObjectId(str): the n-th inserted document gets the id
\* whose text is "c" followed by the digit of n; any other text is rejected
\* by ObjectId() with InvalidId.
StrOfId(n) == <<99, Digits[n]>>

IsValidId(s) == /\ Len(s) = 2
                /\ s[1] = 99
                /\ \E n \in 1..Len(Digits) : Digits[n] = s[2]

ObjectId(s) == CHOOSE n \in 1..Len(Digits) : Digits[n] = s[2]

Take(s, n) == SubSeq(s, 1, Min(n, Len(s)))

create_conversation(username, first_message) ==
    Append(conversations,
           [username |-> username,
            title |-> Take(first_message.content, TitleLen) \o <<46, 46, 46>>,
            messages |-> <<first_message>>])

\* update_one({"_id": ObjectId(conversation_id)}, {"$push": ...}): matches on
\* the id alone and changes nothing when no document has it
add_message_to_conversation(conversation_id, message) ==
    LET oid == ObjectId(conversation_id)
    IN IF oid \in 1..Len(conversations)
       THEN [conversations EXCEPT ![oid].messages = Append(@, message)]
       ELSE conversations

\* ----------------------------------------------------------------- auth.py
get_password_hash(password) == <<"bcrypt", password>>
verify_password(plain_password, hashed_password) ==
    hashed_password = <<"bcrypt", plain_password>>

create_access_token(data) == [sub |-> data.sub, signed |-> TRUE]

\* jwt.decode raises JWTError on a bad signature; an empty "sub" gives None
verify_token(token) ==
    IF ~token.signed THEN None
    ELSE IF token.sub = "" THEN None
    ELSE Some(token.sub)

ForgedTokens == {[sub |-> "alice", signed |-> FALSE]}

\* The database outlives the process: accounts registered before this start,
\* whose owners still hold unexpired tokens.
StoredUsers == <<[username |-> "alice", hashed_password |-> get_password_hash("pw1")],
                 [username |-> "bob", hashed_password |-> get_password_hash("pw1")]>>

\* ------------------------------------------------------------ bookkeeping
\* A worker that is not running a handler remembers the response it sent last.
Idle(last) == [pc |-> "idle", last |-> last]

Response(id, op, status, body) ==
    Idle(Some([req |-> id, op |-> op, status |-> status, body |-> body]))

\* The response of a /chat request, with whether get_current_user passed, the
\* number of calls of the chain the request made and what the chain returned.
ChatResponse(id, authenticated, calls, chain_response, status, body) ==
    Idle(Some([req |-> id, op |-> "chat", status |-> status, body |-> body,
               authenticated |-> authenticated, calls |-> calls,
               chain_response |-> chain_response]))

\* The pool hands a request to an idle worker; the workers are alike, so it
\* is the first idle one.
Free(t) ==
    /\ th[t].pc = "idle"
    /\ \A u \in Workers : th[u].pc = "idle" => t <= u

AcceptChat(t) ==
    /\ phase = "serving"
    /\ Free(t)
    /\ nchat < MaxChats
    /\ nchat' = nchat + 1
    /\ nacct' = nacct

AcceptAccount(t) ==
    /\ phase = "serving"
    /\ Free(t)
    /\ nacct < MaxAccountRequests
    /\ nacct' = nacct + 1
    /\ nchat' = nchat

Init ==
    /\ env \in [{"PRIMARY_GROQ_API_KEY", "FALLBACK_GROQ_API_KEY"} -> EnvValues]
    /\ phase = "boot"
    /\ qa_chain = None
    /\ log = <<>>
    /\ users = StoredUsers
    /\ conversations = <<>>
    /\ tokens = {create_access_token([sub |-> u.username]) :
                    u \in {StoredUsers[i] : i \in 1..Len(StoredUsers)}}
    /\ th = [t \in Workers |-> Idle(None)]
    /\ nchat = 0
    /\ nacct = 0
    /\ doc = None
    /\ text_chunks = None

\* ------------------------------------------------------------ POST /register
\* lines 120-121: the lookup; the insert of line 123 is a second database call
Register(t) ==
    /\ AcceptAccount(t)
    /\ \E username \in Usernames, password \in {"pw1"} :
         IF get_user(username) # None
         THEN th' = [th EXCEPT ![t] =
                       Response(nacct', "register", 400,
                                [detail |-> "Username already exists"])]
         ELSE th' = [th EXCEPT ![t] = [pc |-> "create_user", id |-> nacct',
                                       username |-> username,
                                       password |-> password]]
    /\ UNCHANGED <<env, phase, qa_chain, log, users, conversations, tokens>>
    /\ UNCHANGED idxVars

\* lines 122-124
RegisterInsert(t) ==
    /\ th[t].pc = "create_user"
    /\ users' = create_user(th[t].username, get_password_hash(th[t].password))
    /\ th' = [th EXCEPT ![t] =
                Response(th[t].id, "register", 201,
                         [message |-> "User registered successfully"])]
    /\ UNCHANGED <<env, phase, qa_chain, log, conversations, tokens, nchat, nacct>>
    /\ UNCHANGED idxVars

\* --------------------------------------------------------------- POST /token
Login(t) ==
    /\ AcceptAccount(t)
    /\ \E username \in Usernames, password \in Passwords :
         LET user == get_user(username) IN
         IF user = None \/ ~verify_password(password, user[1].hashed_password)
         THEN /\ th' = [th EXCEPT ![t] =
                          Response(nacct', "token", 401,
                                   [detail |-> "Incorrect username or password"])]
              /\ tokens' = tokens
         ELSE LET access_token == create_access_token([sub |-> user[1].username])
              IN /\ th' = [th EXCEPT ![t] =
                             Response(nacct', "token", 200,
                                      [access_token |-> access_token,
                                       token_type |-> "bearer"])]
                 /\ tokens' = tokens \cup {access_token}
    /\ UNCHANGED <<env, phase, qa_chain, log, users, conversations>>
    /\ UNCHANGED idxVars

\* ---------------------------------------------------------------- POST /chat
\* conversation ids a client can send: none, the empty string, text that is
\* not an id, the id of any stored conversation, and one id never handed out
ConversationIds ==
    {None, Some(<<>>), Some(<<122>>)} \cup
    {Some(StrOfId(n)) : n \in 1..(Len(conversations) + 1)}

\* get_current_user (lines 53-60): the token is verified and the user is read
\* from the database; the endpoint itself is then sent to the thread pool
Chat(t) ==
    /\ AcceptChat(t)
    /\ \E token \in tokens \cup ForgedTokens, prompt \in Prompts,
          conversation_id \in ConversationIds :
         LET username == verify_token(token)
             user == IF username = None THEN None ELSE get_user(username[1])
         IN
         IF username = None
         THEN th' = [th EXCEPT ![t] =
                       ChatResponse(nchat', FALSE, 0, None, 401,
                                    [detail |-> "Invalid token"])]
         ELSE IF user = None
         THEN th' = [th EXCEPT ![t] =
                       ChatResponse(nchat', FALSE, 0, None, 404,
                                    [detail |-> "User not found"])]
         ELSE th' = [th EXCEPT ![t] =
                       [pc |-> "endpoint", id |-> nchat',
                        current_user |-> user[1].username,
                        prompt |-> prompt,
                        conversation_id |-> conversation_id]]
    /\ UNCHANGED <<env, phase, qa_chain, log, users, conversations, tokens>>
    /\ UNCHANGED idxVars

\* chat_endpoint that answers a generic 500 when the chain is missing
chat_endpoint_generic(t) ==
    IF qa_chain = None
    THEN th' = [th EXCEPT ![t] =
                  ChatResponse(th[t].id, TRUE, 0, None, 500,
                               [detail |-> "'NoneType' object has no attribute 'invoke'"])]
    ELSE th' = [th EXCEPT ![t] =
                  [pc |-> "invoke", id |-> th[t].id,
                   current_user |-> th[t].current_user,
                   prompt |-> th[t].prompt,
                   conversation_id |-> th[t].conversation_id,
                   calls |-> 1,
                   llm |-> qa_chain[1].llm]]

\* The head of the handler (lines 147-150): the guard on qa_chain, then the
\* call of the chain with the prompt as query is sent and awaited.
chat_endpoint(t) ==
    IF qa_chain = None
    THEN th' = [th EXCEPT ![t] =
                  ChatResponse(th[t].id, TRUE, 0, None, 503,
                               [detail |-> "AI service is not available"])]
    ELSE th' = [th EXCEPT ![t] =
                  [pc |-> "invoke", id |-> th[t].id,
                   current_user |-> th[t].current_user,
                   prompt |-> th[t].prompt,
                   conversation_id |-> th[t].conversation_id,
                   calls |-> 1,
                   llm |-> qa_chain[1].llm]]

ChatEndpoint(t) ==
    /\ th[t].pc = "endpoint"
    /\ chat_endpoint(t)
    /\ UNCHANGED <<env, phase, qa_chain, log, users, conversations, tokens,
                   nchat, nacct>>
    /\ UNCHANGED idxVars

\* What qa_chain.invoke({"query": prompt}) can do: raise, or return the text
\* generated by the chain's model with the documents retrieved for the query.
InvokeOutcomes(llm, query) ==
    {[raised |-> TRUE, llm |-> llm],
     [raised |-> FALSE, llm |-> llm, result |-> <<111, 107>>,
      source_documents |-> Retrieve(query)]}

Persisting(t, calls, response) ==
    [pc |-> "persist", id |-> th[t].id,
     current_user |-> th[t].current_user,
     prompt |-> th[t].prompt,
     conversation_id |-> th[t].conversation_id,
     calls |-> calls,
     response |-> response]

\* invoke_returns that calls the chain a second time, with the fallback key,
\* when the first call raises
invoke_returns_retry(t) ==
    /\ qa_chain' = qa_chain
    /\ \E response \in InvokeOutcomes(th[t].llm, th[t].prompt) :
         IF response.raised
         THEN \E again \in InvokeOutcomes("gsk_fallback", th[t].prompt) :
                IF again.raised
                THEN th' = [th EXCEPT ![t] =
                              ChatResponse(th[t].id, TRUE, 2, None, 500,
                                           [detail |-> "model call failed"])]
                ELSE th' = [th EXCEPT ![t] = Persisting(t, 2, again)]
         ELSE th' = [th EXCEPT ![t] = Persisting(t, th[t].calls, response)]

\* invoke_returns that drops the chain when the model call raises
invoke_returns_reset(t) ==
    \E response \in InvokeOutcomes(th[t].llm, th[t].prompt) :
       IF response.raised
       THEN /\ qa_chain' = None
            /\ th' = [th EXCEPT ![t] =
                        ChatResponse(th[t].id, TRUE, th[t].calls, None, 500,
                                     [detail |-> "model call failed"])]
       ELSE /\ qa_chain' = qa_chain
            /\ th' = [th EXCEPT ![t] = Persisting(t, th[t].calls, response)]

\* The call of line 150 comes back: with a result, or with an exception that
\* lines 164-165 turn into a 500. The handler has no "global qa_chain": it
\* reads the chain and cannot rebind it.
invoke_returns(t) ==
    /\ qa_chain' = qa_chain
    /\ \E response \in InvokeOutcomes(th[t].llm, th[t].prompt) :
         IF response.raised
         THEN th' = [th EXCEPT ![t] =
                       ChatResponse(th[t].id, TRUE, th[t].calls, None, 500,
                                    [detail |-> "model call failed"])]
         ELSE th' = [th EXCEPT ![t] = Persisting(t, th[t].calls, response)]

ChatInvoke(t) ==
    /\ th[t].pc = "invoke"
    /\ invoke_returns(t)
    /\ UNCHANGED <<env, phase, log, users, conversations, tokens, nchat, nacct>>
    /\ UNCHANGED idxVars

\* lines 154-155; "req" and "by" stand for the timestamp: they identify the
\* request that built the message and the user it was authenticated as
user_message(t) ==
    [role |-> "user", content |-> th[t].prompt,
     req |-> th[t].id, by |-> th[t].current_user]
assistant_message(t) ==
    [role |-> "assistant", content |-> th[t].response.result,
     req |-> th[t].id, by |-> th[t].current_user]

\* "if convo_id:" -- None and "" are falsy
HasConvoId(conversation_id) ==
    conversation_id # None /\ conversation_id # Some(<<>>)

\* lines 151-157 or 151-160: the first database write
ChatPersist(t) ==
    /\ th[t].pc = "persist"
    /\ LET convo_id == th[t].conversation_id IN
       IF HasConvoId(convo_id)
       THEN IF ~IsValidId(convo_id[1])
            THEN /\ th' = [th EXCEPT ![t] =
                             ChatResponse(th[t].id, TRUE, th[t].calls, None,
                                          500, [detail |-> "InvalidId"])]
                 /\ conversations' = conversations
            ELSE /\ conversations' =
                        add_message_to_conversation(convo_id[1], user_message(t))
                 /\ th' = [th EXCEPT ![t] =
                             [pc |-> "persist_reply", id |-> th[t].id,
                              current_user |-> th[t].current_user,
                              prompt |-> th[t].prompt,
                              calls |-> th[t].calls,
                              response |-> th[t].response,
                              convo_id |-> convo_id[1]]]
       ELSE /\ conversations' =
                   create_conversation(th[t].current_user, user_message(t))
            /\ th' = [th EXCEPT ![t] =
                        [pc |-> "persist_reply", id |-> th[t].id,
                         current_user |-> th[t].current_user,
                         prompt |-> th[t].prompt,
                         calls |-> th[t].calls,
                         response |-> th[t].response,
                         convo_id |-> StrOfId(Len(conversations) + 1)]]
    /\ UNCHANGED <<env, phase, qa_chain, log, users, tokens, nchat, nacct>>
    /\ UNCHANGED idxVars

\* The body of the 200 response, line 163
ChatBody(ai_response, response, convo_id) ==
    [response |-> ai_response, conversation_id |-> convo_id]

\* lines 158 or 161-162, then the return of line 163
ChatPersistReply(t) ==
    /\ th[t].pc = "persist_reply"
    /\ conversations' =
           add_message_to_conversation(th[t].convo_id, assistant_message(t))
    /\ th' = [th EXCEPT ![t] =
                ChatResponse(th[t].id, TRUE, th[t].calls, Some(th[t].response),
                             200,
                             ChatBody(th[t].response.result, th[t].response,
                                      th[t].convo_id))]
    /\ UNCHANGED <<env, phase, qa_chain, log, users, tokens, nchat, nacct>>
    /\ UNCHANGED idxVars

Next ==
    \/ Startup
    \/ \E t \in Workers : Chat(t)
    \/ \E t \in Workers : ChatEndpoint(t)
    \/ \E t \in Workers : ChatInvoke(t)
    \/ \E t \in Workers : ChatPersist(t)
    \/ \E t \in Workers : ChatPersistReply(t)

\* The deployments the chat traffic is run against: each key unset, accepted
\* or rejected by the constructor.
InitChat ==
    /\ Init
    /\ env.PRIMARY_GROQ_API_KEY \in {None, Some("gsk_A"), Some("gsk_X")}
    /\ env.FALLBACK_GROQ_API_KEY \in {None, Some("gsk_B"), Some("gsk_X")}

\* Clients that hold tokens and chat.
Spec == InitChat /\ [][Next]_vars

NextAccounts ==
    \/ Startup
    \/ \E t \in Workers : Register(t)
    \/ \E t \in Workers : RegisterInsert(t)
    \/ \E t \in Workers : Login(t)

\* Startup under every environment, then clients that register and log in.
SpecAccounts == Init /\ [][NextAccounts]_vars

\* ------------------------------------------------- memory_llm.py, the chunker
\* RecursiveCharacterTextSplitter(chunk_size, chunk_overlap) with its defaults:
\* separators "\n\n", "\n", " ", "", keep_separator, strip_whitespace.
Separators == << <<10, 10>>, <<10>>, <<32>>, <<>> >>

\* The characters str.strip() removes, those for which str.isspace() holds:
\* tab, newline, vertical tab, form feed, carriage return, U+001C to U+001F,
\* space, U+0085, U+00A0, U+1680, U+2000 to U+200A, U+2028, U+2029, U+202F,
\* U+205F and U+3000.
Whitespace == (9..13) \cup (28..32) \cup {133, 160, 5760} \cup (8192..8202)
              \cup {8232, 8233, 8239, 8287, 12288}

Drop(s, n) == SubSeq(s, n + 1, Len(s))

\* str.strip()
RECURSIVE LStrip(_)
LStrip(s) == IF s # <<>> /\ s[1] \in Whitespace THEN LStrip(Tail(s)) ELSE s
RECURSIVE RStrip(_)
RStrip(s) == IF s # <<>> /\ s[Len(s)] \in Whitespace
             THEN RStrip(SubSeq(s, 1, Len(s) - 1)) ELSE s
Strip(s) == RStrip(LStrip(s))

StartsWith(s, sep) == Len(sep) <= Len(s) /\ SubSeq(s, 1, Len(sep)) = sep

\* re.search(separator, text)
RECURSIVE Contains(_, _)
Contains(s, sep) ==
    IF Len(s) < Len(sep) THEN FALSE
    ELSE StartsWith(s, sep) \/ Contains(Tail(s), sep)

\* re.split(separator, text): the pieces between the matches, left to right;
\* cur is the piece being read
RECURSIVE ReSplit(_, _, _)
ReSplit(s, sep, cur) ==
    IF s = <<>> THEN <<cur>>
    ELSE IF StartsWith(s, sep)
         THEN <<cur>> \o ReSplit(Drop(s, Len(sep)), sep, <<>>)
         ELSE ReSplit(Tail(s), sep, Append(cur, s[1]))

RECURSIVE NonEmpty(_)
NonEmpty(ss) ==
    IF ss = <<>> THEN <<>>
    ELSE IF ss[1] = <<>> THEN NonEmpty(Tail(ss))
    ELSE <<ss[1]>> \o NonEmpty(Tail(ss))

\* _split_text_with_regex with keep_separator: each separator stays at the
\* head of the piece that follows it; the empty separator splits into
\* characters; empty pieces are dropped
SplitWithRegex(text, sep) ==
    IF sep = <<>>
    THEN [i \in 1..Len(text) |-> <<text[i]>>]
    ELSE LET pieces == ReSplit(text, sep, <<>>)
         IN NonEmpty([i \in 1..Len(pieces) |->
                        IF i = 1 THEN pieces[1] ELSE sep \o pieces[i]])

RECURSIVE Concat(_)
Concat(ss) == IF ss = <<>> THEN <<>> ELSE ss[1] \o Concat(Tail(ss))

\* _join_docs with the empty separator: the pieces joined and stripped, or
\* nothing when that leaves the empty string
JoinDocs(current_doc) ==
    LET text == Strip(Concat(current_doc))
    IN IF text = <<>> THEN <<>> ELSE <<text>>

\* the "while" loop of _merge_splits: pieces leave the head of current_doc
\* while it is longer than the overlap, or too long to take the next piece
RECURSIVE PopHead(_, _, _)
PopHead(current_doc, total, len) ==
    IF total > chunk_overlap \/ (total + len > chunk_size /\ total > 0)
    THEN PopHead(Tail(current_doc), total - Len(current_doc[1]), len)
    ELSE [current_doc |-> current_doc, total |-> total]

\* _merge_splits with the empty separator
RECURSIVE MergeSplits(_, _, _)
MergeSplits(splits, current_doc, total) ==
    IF splits = <<>> THEN JoinDocs(current_doc)
    ELSE LET d == splits[1]
             len == Len(d)
         IN IF total + len > chunk_size /\ Len(current_doc) > 0
            THEN LET kept == PopHead(current_doc, total, len)
                 IN JoinDocs(current_doc) \o
                    MergeSplits(Tail(splits), Append(kept.current_doc, d),
                                kept.total + len)
            ELSE MergeSplits(Tail(splits), Append(current_doc, d), total + len)

\* position of the first separator that occurs in the text; the empty one
\* always does
RECURSIVE PickSeparator(_, _, _)
PickSeparator(text, separators, i) ==
    IF i >= Len(separators) THEN Len(separators)
    ELSE IF separators[i] = <<>> \/ Contains(text, separators[i]) THEN i
    ELSE PickSeparator(text, separators, i + 1)

\* RecursiveCharacterTextSplitter._split_text
RECURSIVE SplitText(_, _)
RECURSIVE SplitPieces(_, _, _)
SplitText(text, separators) ==
    LET i == PickSeparator(text, separators, 1)
        separator == separators[i]
        new_separators == IF separator = <<>> THEN <<>>
                          ELSE SubSeq(separators, i + 1, Len(separators))
    IN SplitPieces(SplitWithRegex(text, separator), new_separators, <<>>)

\* the loop over the pieces: short pieces collect in good_splits and are
\* merged; a piece of chunk_size or more is split with the next separators
SplitPieces(splits, new_separators, good_splits) ==
    IF splits = <<>>
    THEN IF good_splits = <<>> THEN <<>> ELSE MergeSplits(good_splits, <<>>, 0)
    ELSE LET piece == splits[1] IN
         IF Len(piece) < chunk_size
         THEN SplitPieces(Tail(splits), new_separators, Append(good_splits, piece))
         ELSE (IF good_splits = <<>> THEN <<>> ELSE MergeSplits(good_splits, <<>>, 0))
              \o (IF new_separators = <<>> THEN <<piece>>
                  ELSE SplitText(piece, new_separators))
              \o SplitPieces(Tail(splits), new_separators, <<>>)

\* create_chunks for one loaded page: split_documents keeps the page's
\* metadata on every chunk
create_chunks(extracted_data) ==
    LET chunks == SplitText(extracted_data.page_content, Separators)
    IN [i \in 1..Len(chunks) |->
          [page_content |-> chunks[i], source |-> extracted_data.source]]

\* "a", space, newline and the em space U+2003
Alphabet == {97, 32, 10, 8195}

RECURSIVE Texts(_)
Texts(n) == IF n = 0 THEN {<<>>}
            ELSE Texts(n - 1) \cup
                 {Append(s, c) : s \in {x \in Texts(n - 1) : Len(x) = n - 1},
                                 c \in Alphabet}

InitIndex ==
    /\ env = [PRIMARY_GROQ_API_KEY |-> None, FALLBACK_GROQ_API_KEY |-> None]
    /\ phase = "script"
    /\ qa_chain = None
    /\ log = <<>>
    /\ users = StoredUsers
    /\ conversations = <<>>
    /\ tokens = {}
    /\ th = [t \in Workers |-> Idle(None)]
    /\ nchat = 0
    /\ nacct = 0
    /\ doc = None
    /\ text_chunks = None

svcVars == <<env, qa_chain, log, users, conversations, tokens, th, nchat, nacct>>

\* lines 9-16: a page loaded from a PDF of the data directory
LoadPdfFiles ==
    /\ phase = "script"
    /\ \E text \in Texts(MaxDocLen) :
         doc' = Some([page_content |-> text, source |-> "a.pdf"])
    /\ phase' = "loaded"
    /\ UNCHANGED text_chunks
    /\ UNCHANGED svcVars

\* lines 20-28
CreateChunks ==
    /\ phase = "loaded"
    /\ text_chunks' = Some(create_chunks(doc[1]))
    /\ phase' = "chunked"
    /\ UNCHANGED doc
    /\ UNCHANGED svcVars

NextIndex ==
    \/ LoadPdfFiles
    \/ CreateChunks

\* The indexing script.
SpecIndex == InitIndex /\ [][NextIndex]_vars

\* ===================================================================== claims
\* position of the first key that is present and whose constructor returns,
\* 0 when there is none
FirstGood ==
    LET good == {i \in 1..Len(KeyList) :
                    Truthy(KeyList[i]) /\ KeyList[i][1] \notin RejectedKeys}
    IN IF good = {} THEN 0 ELSE CHOOSE i \in good : \A j \in good : i <= j

\* the keys that startup passed over: those before the selected one, or all
Skipped == IF FirstGood = 0 THEN Len(KeyList) ELSE FirstGood - 1

IsKeyFailure(e) == e.key > 0
\* positions of the keys reported as failed, in the order of the log
LoggedKeys ==
    LET failures == SelectSeq(log, IsKeyFailure)
    IN [i \in 1..Len(failures) |-> failures[i].key]

ExhaustedMsg ==
    "Failed to load RAG chain: Both GROQ API keys failed or are missing. Cannot load LLM."

Exhausted == \E i \in 1..Len(log) : log[i].msg = ExhaustedMsg

\* startup used the first good key, and reported exhaustion exactly when
\* there is none
SelectedFirstGood ==
    /\ Exhausted <=> FirstGood = 0
    /\ qa_chain # None => /\ FirstGood # 0
                          /\ qa_chain[1].llm = KeyList[FirstGood][1]
    /\ (FirstGood # 0 /\ qa_chain = None) =>
          log[Len(log)].msg = "Failed to load RAG chain: embedder or index"

IsPresent(i) == Truthy(KeyList[i])

\* C1 as stated: after startup the first good credential is the one in use,
\* startup reports exhaustion exactly when no credential is good, and every
\* credential passed over, missing or failing, has a line in the log.
C1_LogsEverySkipped ==
    phase = "serving" =>
        /\ SelectedFirstGood
        /\ LoggedKeys = [i \in 1..Skipped |-> i]

\* C1 amended: after startup the first good credential is the one in use,
\* startup reports exhaustion exactly when no credential is good, and the log
\* has one line, in order, for each passed-over credential that was present
\* and failed to initialise; a missing credential leaves no line.
C1_FirstGoodSelected ==
    phase = "serving" =>
        /\ SelectedFirstGood
        /\ LoggedKeys = SelectSeq([i \in 1..Skipped |-> i], IsPresent)

C1_Witness ==
    /\ phase = "serving"
    /\ env.PRIMARY_GROQ_API_KEY = Some("gsk_X")
    /\ env.FALLBACK_GROQ_API_KEY = Some("gsk_B")
    /\ qa_chain # None
    /\ qa_chain[1].llm = "gsk_B"
    /\ LoggedKeys = <<1>>

\* the responses to /chat that the workers sent last
ChatResponses ==
    {th[t].last[1] : t \in {u \in Workers : /\ th[u].pc = "idle"
                                            /\ th[u].last # None
                                            /\ th[u].last[1].op = "chat"}}

\* C2: when startup found no usable credential, the failure is in the log,
\* the service goes on serving, and every authenticated /chat request is
\* answered 503 "AI service is not available" without a call of the chain
\* and without touching the conversations.
C2_Unavailable ==
    (phase = "serving" /\ FirstGood = 0) =>
        /\ Exhausted
        /\ qa_chain = None
        /\ conversations = <<>>
        /\ \A t \in Workers : th[t].pc \in {"idle", "endpoint"}
        /\ \A r \in ChatResponses :
              /\ r.calls = 0
              /\ r.authenticated =>
                    /\ r.status = 503
                    /\ r.body.detail = "AI service is not available"

C2_Witness ==
    /\ phase = "serving"
    /\ FirstGood = 0
    /\ nchat = MaxChats
    /\ \E r \in ChatResponses : r.authenticated /\ r.status = 503

\* the worker's request has called the chain
Calling(t) == th[t].pc = "invoke"
InFlight(t) == th[t].pc \in {"persist", "persist_reply"}

\* C3: once the service is serving, the credential of the chain never
\* changes; every request calls the chain at most once, with that credential,
\* and a request whose call raised is answered with an error.
C3_SelectedOnce ==
    /\ [][phase = "serving" =>
            /\ (qa_chain' = None) <=> (qa_chain = None)
            /\ qa_chain # None => qa_chain'[1].llm = qa_chain[1].llm]_vars
    /\ [](\A t \in Workers :
            /\ Calling(t) => /\ th[t].calls = 1
                             /\ th[t].llm = qa_chain[1].llm
                             /\ qa_chain[1].llm = KeyList[FirstGood][1]
            /\ InFlight(t) => /\ th[t].calls = 1
                              /\ th[t].response.llm = qa_chain[1].llm
                              /\ qa_chain[1].llm = KeyList[FirstGood][1])
    /\ [](\A r \in ChatResponses :
            /\ r.calls <= 1
            /\ (r.calls = 1 /\ r.chain_response = None) => r.status = 500)

C3_Witness ==
    \E t \in Workers, u \in Workers :
        /\ th[t].pc = "idle" /\ th[t].last # None
        /\ th[t].last[1].status = 500
        /\ th[t].last[1].body.detail = "model call failed"
        /\ th[t].last[1].calls = 1
        /\ th[u].pc = "persist"
        /\ th[u].id > th[t].last[1].req
        /\ th[u].response.llm = qa_chain[1].llm

IsBlank(s) == Strip(s) = <<>>

\* C4: a prompt that is empty or only whitespace never reaches the chain and
\* never is stored as a message.
C4_BlankRejected ==
    /\ \A t \in Workers : (Calling(t) \/ InFlight(t)) => ~IsBlank(th[t].prompt)
    /\ \A c \in 1..Len(conversations) :
          \A i \in 1..Len(conversations[c].messages) :
             conversations[c].messages[i].role = "user" =>
                ~IsBlank(conversations[c].messages[i].content)

\* C5: every 200 response of /chat carries the sources of the documents the
\* chain retrieved for the request.
C5_Sources ==
    \A r \in ChatResponses :
        r.status = 200 =>
            /\ "sources" \in DOMAIN r.body
            /\ r.body.sources =
                  [i \in 1..Len(r.chain_response[1].source_documents) |->
                     r.chain_response[1].source_documents[i].source]

\* C6: only startup writes the chain: no step of a request, whether it
\* succeeds or fails, changes the index, the embedder, the credential or the
\* chain.
C6_OnlyStartupWrites ==
    [][qa_chain' # qa_chain => phase = "boot" /\ phase' = "serving"]_vars

C6_Witness ==
    /\ qa_chain # None
    /\ qa_chain[1].db = Index
    /\ nchat = MaxChats
    /\ \E r \in ChatResponses : r.status = 500 /\ r.calls = 1
    /\ \E r \in ChatResponses : r.status = 200

\* the chunks joined after dropping the declared overlap from the head of
\* every chunk but the first
RECURSIVE DropOverlaps(_)
DropOverlaps(chunks) ==
    IF chunks = <<>> THEN <<>>
    ELSE Drop(chunks[1], chunk_overlap) \o DropOverlaps(Tail(chunks))

Reassemble(chunks) ==
    IF chunks = <<>> THEN <<>> ELSE chunks[1] \o DropOverlaps(Tail(chunks))

\* C7: the chunks of a page are non-empty and, joined without their
\* overlaps, give back the page's text.
C7_Reconstructs ==
    phase = "chunked" =>
        LET chunks == [i \in 1..Len(text_chunks[1]) |-> text_chunks[1][i].page_content]
        IN /\ \A i \in 1..Len(chunks) : chunks[i] # <<>>
           /\ Reassemble(chunks) = doc[1].page_content

\* C8: every message of a conversation was appended by a request
\* authenticated as the conversation's owner.
C8_OwnerOnly ==
    \A c \in 1..Len(conversations) :
        \A i \in 1..Len(conversations[c].messages) :
            conversations[c].messages[i].by = conversations[c].username

\* C9: a 200 response of /chat names a stored conversation whose messages
\* hold the request's user message and, after it, its assistant message.
C9_Persisted ==
    \A r \in ChatResponses :
        r.status = 200 =>
            LET c == ObjectId(r.body.conversation_id) IN
            /\ c \in 1..Len(conversations)
            /\ \E i \in 1..Len(conversations[c].messages) :
               \E j \in 1..Len(conversations[c].messages) :
                  /\ i < j
                  /\ conversations[c].messages[i].req = r.req
                  /\ conversations[c].messages[i].role = "user"
                  /\ conversations[c].messages[j].req = r.req
                  /\ conversations[c].messages[j].role = "assistant"

\* C10: the user store holds at most one user per username, and a /register
\* for a stored username is answered 400.
C10_Unique ==
    \A i \in 1..Len(users) : \A j \in 1..Len(users) :
        users[i].username = users[j].username => i = j
====
